---- MODULE Spec2Model ----
(***************************************************************************)
(* ptxcompiler: the compiler session of api.compile_ptx and the            *)
(* compatibility gate / strategy injection of patch.py.                    *)
(*                                                                         *)
(* Text (str / bytes) is a sequence of one-character strings, so that      *)
(* int(), str.split() and the f-string formatting of integers are computed *)
(* as Python computes them.                                                *)
(***************************************************************************)
EXTENDS Integers, Sequences, FiniteSets, TLC

(***************************************************************************)
(* Bounds of the model.                                                    *)
(***************************************************************************)
\* CUDA major versions reported by the probe range over 11..MaxMajor.
MaxMajor == 12
\* Number of operations after which the model stops issuing new ones in
\* the specifications that count calls.
MaxCalls == 3

\* Longest directive text tried where the text itself is the subject.
MaxFlagLen == 2

(***************************************************************************)
(* Python text primitives.                                                 *)
(***************************************************************************)
DigitChars == <<"0", "1", "2", "3", "4", "5", "6", "7", "8", "9">>

IsDigit(c) == \E i \in 1..10 : DigitChars[i] = c

DigitVal(c) == (CHOOSE i \in 1..10 : DigitChars[i] = c) - 1

IsSpace(c) == c \in {" ", "\n"}

RECURSIVE LStrip(_)
LStrip(s) == IF s # <<>> /\ IsSpace(Head(s)) THEN LStrip(Tail(s)) ELSE s

RECURSIVE RStrip(_)
RStrip(s) ==
    IF s # <<>> /\ IsSpace(s[Len(s)]) THEN RStrip(SubSeq(s, 1, Len(s) - 1)) ELSE s

\* str.strip() / bytes.strip()
Strip(s) == RStrip(LStrip(s))

RECURSIVE DecVal(_)
DecVal(s) ==
    IF s = <<>> THEN 0
    ELSE 10 * DecVal(SubSeq(s, 1, Len(s) - 1)) + DigitVal(s[Len(s)])

\* int(text): surrounding whitespace is ignored, one optional sign, then
\* at least one decimal digit; anything else is a ValueError (ok = FALSE).
ParseDigits(body, negative) ==
    IF body = <<>> \/ \E i \in 1..Len(body) : ~IsDigit(body[i])
    THEN [ok |-> FALSE, val |-> 0]
    ELSE [ok |-> TRUE, val |-> IF negative THEN 0 - DecVal(body) ELSE DecVal(body)]

ParseSigned(t) ==
    IF t # <<>> /\ t[1] \in {"-", "+"} THEN ParseDigits(Tail(t), t[1] = "-")
    ELSE ParseDigits(t, FALSE)

ParseInt(s) == ParseSigned(Strip(s))

\* [int(s) for s in pieces]: ok is FALSE when an item raises ValueError
AllOk(parsed) ==
    [ok |-> \A i \in 1..Len(parsed) : parsed[i].ok,
     val |-> [i \in 1..Len(parsed) |-> parsed[i].val]]

IntList(pieces) == AllOk([i \in 1..Len(pieces) |-> ParseInt(pieces[i])])

\* Index of the first item of s that satisfies Hit, 0 when there is none.
FirstIndex(s, Hit(_)) ==
    IF \A i \in 1..Len(s) : ~Hit(s[i]) THEN 0
    ELSE CHOOSE i \in 1..Len(s) : Hit(s[i]) /\ \A j \in 1..(i - 1) : ~Hit(s[j])

\* text.split(sep) for a one-character separator: empty pieces are kept.
RECURSIVE SplitOn(_, _)
SplitAt(s, sep, k) ==
    IF k = 0 THEN <<s>>
    ELSE <<SubSeq(s, 1, k - 1)>> \o SplitOn(SubSeq(s, k + 1, Len(s)), sep)

SplitOn(s, sep) == SplitAt(s, sep, FirstIndex(s, LAMBDA c : c = sep))

\* text.split(): pieces between runs of whitespace, no empty piece.
RECURSIVE SplitWs(_)
SplitWsAt(t, k) ==
    IF t = <<>> THEN <<>>
    ELSE IF k = 0 THEN <<t>>
    ELSE <<SubSeq(t, 1, k - 1)>> \o SplitWs(SubSeq(t, k + 1, Len(t)))

SplitWsStripped(t) == SplitWsAt(t, FirstIndex(t, IsSpace))

SplitWs(s) == SplitWsStripped(LStrip(s))

\* tuple(map(int, text.split("."))): ok is FALSE when an item is no integer
ParseVersion(text) == IntList(SplitOn(text, "."))

\* f'{n}' for an integer n
RECURSIVE IntToStr(_)
IntToStr(n) ==
    IF n < 0 THEN <<"-">> \o IntToStr(0 - n)
    ELSE IF n < 10 THEN <<DigitChars[n + 1]>>
    ELSE IntToStr(n \div 10) \o <<DigitChars[(n % 10) + 1]>>

\* ' '.join / '.'.join of pieces
RECURSIVE Join(_, _)
Join(pieces, sep) ==
    IF pieces = <<>> THEN <<>>
    ELSE IF Len(pieces) = 1 THEN pieces[1]
    ELSE pieces[1] \o <<sep>> \o Join(Tail(pieces), sep)

(***************************************************************************)
(* Python values that the gate compares: a version is either a tuple of    *)
(* integers or the float math.inf.                                         *)
(***************************************************************************)
Tup(s) == [inf |-> FALSE, tup |-> s]

Inf == [inf |-> TRUE, tup |-> <<>>]

NO_DRIVER == <<Inf, Inf>>

\* tuple < tuple: the first differing item decides, else the shorter is less.
TupleLess(a, b) ==
    \/ \E i \in 1..Len(a) :
          /\ i <= Len(b)
          /\ a[i] < b[i]
          /\ \A j \in 1..(i - 1) : a[j] = b[j]
    \/ /\ Len(a) < Len(b)
       /\ \A j \in 1..Len(a) : a[j] = b[j]

\* a < b for two values of the same Python type (inf < inf is False).
PyLess(a, b) ==
    IF a.inf \/ b.inf THEN ~a.inf /\ b.inf
    ELSE TupleLess(a.tup, b.tup)

(***************************************************************************)
(* State.                                                                  *)
(***************************************************************************)
VARIABLES
    environ,              \* os.environ (the four directives) as the last call found it
    numba_install,        \* the Numba found by "import numba" (or none)
    _numba_version_ok,    \* patch.py module global
    _numba_error,         \* patch.py module global
    _logger,              \* patch.py module global: TRUE once get_logger cached one
    _library_class,       \* codegen.JITCUDACodegen._library_class
    handles,              \* native compiler library: the state of every handle made
    codelib,              \* one PTXStaticCompileCodeLibrary object and its device
    last                  \* the call whose outcome the caller holds

gateVars == <<environ, numba_install, _numba_version_ok, _numba_error, _logger,
              _library_class>>

vars == <<environ, numba_install, _numba_version_ok, _numba_error, _logger,
          _library_class, handles, codelib, last>>

(***************************************************************************)
(* Module import of patch.py: the supported Numba band.                    *)
(***************************************************************************)
min_numba_ver == <<0, 54>>

max_numba_ver == <<0, 56>>

NoNumba == [present |-> FALSE, ver |-> <<0, 0>>]

NumbaInstalls ==
    {NoNumba} \cup
    {[present |-> TRUE, ver |-> v] : v \in {<<0, 53>>, <<0, 56>>, <<0, 57>>}}

NoError == [kind |-> "None", ver |-> <<0, 0>>]

\* The try/except around "import numba": sets _numba_version_ok, _numba_error.
ModuleImport(install) ==
    IF ~install.present
    THEN [ok |-> FALSE, error |-> [kind |-> "failed to import Numba", ver |-> <<0, 0>>]]
    ELSE IF TupleLess(install.ver, min_numba_ver)
    THEN [ok |-> FALSE, error |-> [kind |-> "is insufficient", ver |-> install.ver]]
    ELSE IF TupleLess(max_numba_ver, install.ver)
    THEN [ok |-> FALSE, error |-> [kind |-> "should not be patched", ver |-> install.ver]]
    ELSE [ok |-> TRUE, error |-> NoError]

(***************************************************************************)
(* The environment directives.                                             *)
(***************************************************************************)
APPLY == "PTXCOMPILER_APPLY_NUMBA_CODEGEN_PATCH"

CHECK == "PTXCOMPILER_CHECK_NUMBA_CODEGEN_PATCH_NEEDED"

KNOWN_DRIVER == "PTXCOMPILER_KNOWN_DRIVER_VERSION"

KNOWN_RUNTIME == "PTXCOMPILER_KNOWN_RUNTIME_VERSION"

EnvNames == {APPLY, CHECK, KNOWN_DRIVER, KNOWN_RUNTIME}

Unset == [set |-> FALSE, val |-> <<>>]

Set(text) == [set |-> TRUE, val |-> text]

FlagValues == {Unset, Set(<<"0">>), Set(<<"1">>), Set(<<"x">>)}

EnvValues(name) ==
    IF name \in {APPLY, CHECK} THEN FlagValues
    ELSE IF name = KNOWN_DRIVER
    THEN {Unset, Set(<<"1", "1", ".", "2">>), Set(<<"1", "1", ".", "8">>),
          Set(<<"1", "1", ".", "x">>)}
    ELSE {Unset, Set(<<"1", "1", ".", "5">>)}

(***************************************************************************)
(* Outcomes of a call: the exception raised ("none" when it returned), the *)
(* returned value, and the effects accumulated so far.                     *)
(***************************************************************************)
NoMsg == [fmt |-> "", args |-> <<>>]

\* Effects of a call: the cached logger, the child processes it spawned, its
\* warnings and its log records.
Fx0(logger) == [logger |-> logger, spawned |-> 0, warnings |-> <<>>, logs |-> <<>>]

Ok(val, fx) == [exc |-> "none", msg |-> NoMsg, val |-> val, fx |-> fx]

Raise(exc, msg, fx) == [exc |-> exc, msg |-> msg, val |-> FALSE, fx |-> fx]

Log(fx, level, fmt, args) ==
    [fx EXCEPT !.logs = Append(@, [level |-> level, fmt |-> fmt, args |-> args])]

(***************************************************************************)
(* get_logger: the cached logger is reused; otherwise, unless the logging  *)
(* tree already has handlers, numba.config is read, which is a NameError   *)
(* when "import numba" failed at module import.                            *)
(***************************************************************************)
get_logger(fx, w) ==
    IF fx.logger THEN Ok(TRUE, fx)
    ELSE IF ~w.hasHandlers /\ ~w.imported
    THEN Raise("NameError", [fmt |-> "name 'numba' is not defined", args |-> <<>>], fx)
    ELSE Ok(TRUE, [fx EXCEPT !.logger = TRUE])

\* try: int(text) except ValueError: False, then its truth value
IntFlagParsed(p) == IF p.ok THEN p.val # 0 ELSE FALSE

IntFlag(text) == IntFlagParsed(ParseInt(text))

\* Mutant: the text is not converted; any non-empty text forces the patch.
patch_forced_by_user_getenv_truthy(g, apply) ==
    IF g.exc # "none" THEN g
    ELSE IF ~apply.set THEN Ok(FALSE, g.fx)
    ELSE Ok(apply.val # <<>>,
            Log(g.fx, "debug",
                "PTXCOMPILER_APPLY_NUMBA_CODEGEN_PATCH=%s", <<apply.val>>))

patch_forced_by_user_getenv(g, apply) ==
    IF g.exc # "none" THEN g
    ELSE IF ~apply.set THEN Ok(FALSE, g.fx)
    ELSE Ok(IntFlag(apply.val),
            Log(g.fx, "debug",
                "PTXCOMPILER_APPLY_NUMBA_CODEGEN_PATCH=%s", <<apply.val>>))

patch_forced_by_user(fx, w) ==
    patch_forced_by_user_getenv(get_logger(fx, w), w.environ[APPLY])

check_disabled_in_env_getenv(g, check) ==
    IF g.exc # "none" THEN g
    ELSE IF ~check.set THEN Ok(~TRUE, g.fx)
    ELSE Ok(~IntFlag(check.val),
            Log(g.fx, "debug",
                "PTXCOMPILER_CHECK_NUMBA_CODEGEN_PATCH_NEEDED=%s", <<check.val>>))

check_disabled_in_env(fx, w) ==
    check_disabled_in_env_getenv(get_logger(fx, w), w.environ[CHECK])

(***************************************************************************)
(* The probe: CMD run by a fresh interpreter (subprocess.run).             *)
(***************************************************************************)
Majors == 11..MaxMajor

DriverMinors == {2, 5, 8}

RuntimeMinors == {5}

RuntimeMajors == {11, MaxMajor}

\* cuDriverGetVersion's encoding of a driver version: 1000 * major + 10 * minor
DriverInts == {1000 * M + 10 * m : M \in Majors, m \in DriverMinors}

RuntimeVersions == {<<M, m>> : M \in RuntimeMajors, m \in RuntimeMinors}

CMD_print(drv_major, drv_minor, run_major, run_minor) ==
    Join(<<IntToStr(drv_major), IntToStr(drv_minor),
           IntToStr(run_major), IntToStr(run_minor)>>, " ") \o <<"\n">>

CMD_minor(dv, drv_major, rt) ==
    CMD_print(drv_major, (dv - (drv_major * 1000)) \div 10, rt[1], rt[2])

\* What CMD prints for a driver integer dv and a runtime version rt.
CMD(dv, rt) == CMD_minor(dv, dv \div 1000, rt)

\* The completed processes subprocess.run can hand back: the child ran CMD to
\* its end; the child died with a traceback; the child exited 0 but its
\* standard output is not the one line of CMD.
ProbeOutcomes ==
    {[returncode |-> 0, stdout |-> CMD(dv, rt), stderr |-> <<>>] :
        dv \in DriverInts, rt \in RuntimeVersions}
    \cup
    {[returncode |-> 1, stdout |-> <<>>, stderr |-> <<"E", "2">>],
     [returncode |-> 1, stdout |-> <<"o">>, stderr |-> <<"e">>]}
    \cup
    {[returncode |-> 0, stdout |-> so, stderr |-> <<>>] :
        so \in {<<>>,
                <<"1", "1", " ", "2", " ", "1", "1", "\n">>,
                <<"w", "\n", "1", "1", " ", "2", " ", "1", "1", " ", "5", "\n">>}}

NoCp == [returncode |-> 0, stdout |-> <<>>, stderr |-> <<>>]

Spawn(fx) == [fx EXCEPT !.spawned = @ + 1]

\* logger.debug(fmt % version): the format has two places
LogVersion(fx, fmt, version) ==
    Log(fx, "debug", fmt, <<IntToStr(version[1]), IntToStr(version[2])>>)

get_versions_return(fx, driver_version, runtime_version) ==
    IF Len(driver_version) # 2
    THEN Raise("TypeError", [fmt |-> "%s.%s % driver_version", args |-> <<>>], fx)
    ELSE IF Len(runtime_version) # 2
    THEN Raise("TypeError", [fmt |-> "%s.%s % runtime_version", args |-> <<>>],
               LogVersion(fx, "CUDA Driver version %s.%s", driver_version))
    ELSE Ok(<<Tup(driver_version), Tup(runtime_version)>>,
            LogVersion(LogVersion(fx, "CUDA Driver version %s.%s", driver_version),
                       "CUDA Runtime version %s.%s", runtime_version))

\* versions[:2] and versions[2:]
get_versions_slice(fx, versions) ==
    IF ~versions.ok
    THEN Raise("ValueError", [fmt |-> "invalid literal for int()", args |-> <<>>], fx)
    ELSE get_versions_return(
             fx,
             SubSeq(versions.val, 1, IF Len(versions.val) < 2 THEN Len(versions.val) ELSE 2),
             IF Len(versions.val) < 3 THEN <<>>
             ELSE SubSeq(versions.val, 3, Len(versions.val)))

\* Mutant: a non-zero exit of the child is raised instead of logged.
get_versions_run_raising(g, cp) ==
    IF g.exc # "none" THEN g
    ELSE IF cp.returncode # 0
    THEN Raise("RuntimeError",
               [fmt |-> "Error getting driver and runtime versions", args |-> <<>>],
               Spawn(g.fx))
    ELSE get_versions_slice(Spawn(g.fx), IntList(SplitWs(Strip(cp.stdout))))

get_versions_run(g, cp) ==
    IF g.exc # "none" THEN g
    ELSE IF cp.returncode # 0
    THEN Ok(NO_DRIVER,
            Log(Spawn(g.fx), "error",
                "Error getting driver and runtime versions: stdout: %s stderr: %s Not patching Numba",
                <<cp.stdout, cp.stderr>>))
    ELSE get_versions_slice(Spawn(g.fx), IntList(SplitWs(Strip(cp.stdout))))

get_versions(fx, w) == get_versions_run(get_logger(fx, w), w.cp)

\* Mutant: driver <= runtime instead of driver < runtime.
patch_needed_compare_nonstrict(v) ==
    IF v.exc # "none" THEN v
    ELSE Ok(~PyLess(v.val[2], v.val[1]), v.fx)

\* driver_version, runtime_version = get_versions(); return driver < runtime
patch_needed_compare(v) ==
    IF v.exc # "none" THEN v
    ELSE Ok(PyLess(v.val[1], v.val[2]), v.fx)

\* Mutant: with probing disabled the known versions are compared.
patch_needed_check_known(c, w) ==
    IF c.exc # "none" THEN c
    ELSE IF c.val
    THEN Ok(PyLess(Tup(ParseVersion(w.environ[KNOWN_DRIVER].val).val),
                   Tup(ParseVersion(w.environ[KNOWN_RUNTIME].val).val)), c.fx)
    ELSE patch_needed_compare(get_versions(c.fx, w))

patch_needed_check(c, w) ==
    IF c.exc # "none" THEN c
    ELSE IF c.val THEN Ok(FALSE, c.fx)
    ELSE patch_needed_compare(get_versions(c.fx, w))

\* Mutant: the skip-probing directive is looked at before the force override.
patch_needed_forced_after_check(f, w) ==
    IF f.exc # "none" THEN f
    ELSE IF check_disabled_in_env(f.fx, w).val THEN Ok(FALSE, f.fx)
    ELSE IF f.val THEN Ok(TRUE, f.fx)
    ELSE patch_needed_check(check_disabled_in_env(f.fx, w), w)

patch_needed_forced(f, w) ==
    IF f.exc # "none" THEN f
    ELSE IF f.val THEN Ok(TRUE, f.fx)
    ELSE patch_needed_check(check_disabled_in_env(f.fx, w), w)

patch_needed(fx, w) ==
    IF ~w._numba_version_ok THEN Ok(FALSE, fx)
    ELSE patch_needed_forced(patch_forced_by_user(fx, w), w)

NoWayWarning ==
    "No way to determine driver and runtime versions for patching, set PTXCOMPILER_KNOWN_DRIVER_VERSION/PTXCOMPILER_KNOWN_RUNTIME_VERSION"

Warn(fx) == [fx EXCEPT !.warnings = Append(@, NoWayWarning)]

safe_get_versions_convert(fx, driver_version, runtime_version) ==
    IF ~driver_version.ok \/ ~runtime_version.ok THEN Ok(NO_DRIVER, Warn(fx))
    ELSE Ok(<<Tup(driver_version.val), Tup(runtime_version.val)>>, fx)

\* Mutant: the missing variables are not warned about.
safe_get_versions_known_silent(fx, d, r) ==
    IF ~d.set \/ ~r.set THEN Ok(NO_DRIVER, fx)
    ELSE safe_get_versions_convert(fx, ParseVersion(d.val), ParseVersion(r.val))

\* The try block: a KeyError when one of the two variables is not set.
safe_get_versions_known(fx, d, r) ==
    IF ~d.set \/ ~r.set THEN Ok(NO_DRIVER, Warn(fx))
    ELSE safe_get_versions_convert(fx, ParseVersion(d.val), ParseVersion(r.val))

safe_get_versions_check(c, w) ==
    IF c.exc # "none" THEN c
    ELSE IF c.val
    THEN safe_get_versions_known(c.fx, w.environ[KNOWN_DRIVER], w.environ[KNOWN_RUNTIME])
    ELSE get_versions(c.fx, w)

safe_get_versions(fx, w) == safe_get_versions_check(check_disabled_in_env(fx, w), w)

CUDACodeLibrary == "CUDACodeLibrary"

PTXStaticCompileCodeLibrary == "PTXStaticCompileCodeLibrary"

\* Mutant: the branch that does not patch puts the original strategy back.
patch_numba_codegen_if_needed_apply_restoring(n, w) ==
    IF n.exc # "none" THEN [n EXCEPT !.val = w._library_class]
    ELSE IF n.val
    THEN Ok(PTXStaticCompileCodeLibrary,
            Log(n.fx, "debug", "Patching Numba codegen for forward compatibility", <<>>))
    ELSE Ok(CUDACodeLibrary, Log(n.fx, "debug", "Not patching Numba codegen", <<>>))

\* Mutant: the selector is assigned in both branches of the decision.
patch_numba_codegen_if_needed_apply_always(n, w) ==
    IF n.exc # "none" THEN [n EXCEPT !.val = w._library_class]
    ELSE IF n.val
    THEN Ok(PTXStaticCompileCodeLibrary,
            Log(n.fx, "debug", "Patching Numba codegen for forward compatibility", <<>>))
    ELSE Ok(PTXStaticCompileCodeLibrary,
            Log(n.fx, "debug", "Not patching Numba codegen", <<>>))

\* These return the value of JITCUDACodegen._library_class after the call.
patch_numba_codegen_if_needed_apply(n, w) ==
    IF n.exc # "none" THEN [n EXCEPT !.val = w._library_class]
    ELSE IF n.val
    THEN Ok(PTXStaticCompileCodeLibrary,
            Log(n.fx, "debug", "Patching Numba codegen for forward compatibility", <<>>))
    ELSE Ok(w._library_class, Log(n.fx, "debug", "Not patching Numba codegen", <<>>))

patch_numba_codegen_if_needed_logger(g, w) ==
    IF g.exc # "none" THEN [g EXCEPT !.val = w._library_class]
    ELSE patch_numba_codegen_if_needed_apply(patch_needed(g.fx, w), w)

\* Mutant: the usability of Numba is not checked before the decision.
patch_numba_codegen_if_needed_unchecked(fx, w) ==
    patch_numba_codegen_if_needed_logger(get_logger(fx, w), w)

patch_numba_codegen_if_needed(fx, w) ==
    IF ~w._numba_version_ok
    THEN [Raise("RuntimeError",
                [fmt |-> "Cannot patch Numba: %s", args |-> <<w._numba_error>>], fx)
          EXCEPT !.val = w._library_class]
    ELSE patch_numba_codegen_if_needed_logger(get_logger(fx, w), w)

(***************************************************************************)
(* The native compiler library _ptxcompilerlib, at its boundary: create,   *)
(* compile, get_error_log, get_info_log, get_compiled_program, destroy.    *)
(* N is the library's state: the state of every handle made so far and the *)
(* calls made in the current Python call, in order.  nat is what the       *)
(* library answers in this call.                                           *)
(***************************************************************************)
Traced(N, fn, handle, exc, val) ==
    [N EXCEPT !.calls = Append(@, [fn |-> fn, handle |-> handle, exc |-> exc,
                                   val |-> val,
                                   state |-> IF handle \in 1..Len(N.handles)
                                             THEN N.handles[handle] ELSE "none"])]

NativeOk(val, N) == [exc |-> "none", msg |-> NoMsg, val |-> val, N |-> N]

NativeError(text, N) ==
    [exc |-> "RuntimeError", msg |-> [fmt |-> "%s", args |-> <<text>>], val |-> "", N |-> N]

Native_create(N, ptx, nat) ==
    IF ~nat.create
    THEN NativeError("NVPTXCOMPILE_ERROR_OUT_OF_MEMORY error", Traced(N, "create", 0, "RuntimeError", ""))
    ELSE NativeOk(Len(N.handles) + 1,
                  Traced([N EXCEPT !.handles = Append(@, "created")],
                         "create", Len(N.handles) + 1, "none", ""))

Native_compile(N, handle, options, nat) ==
    IF ~nat.compile
    THEN NativeError("NVPTXCOMPILE_ERROR_COMPILATION_FAILURE error",
                     [Traced(N, "compile", handle, "RuntimeError", "")
                        EXCEPT !.handles[handle] = "failed"])
    ELSE NativeOk("", [Traced(N, "compile", handle, "none", "")
                         EXCEPT !.handles[handle] = "compiled"])

Native_get_error_log(N, handle, nat) ==
    IF ~nat.get_error_log
    THEN NativeError("NVPTXCOMPILE_ERROR_INTERNAL error",
                     Traced(N, "get_error_log", handle, "RuntimeError", ""))
    ELSE NativeOk(nat.error_log, Traced(N, "get_error_log", handle, "none", nat.error_log))

Native_get_compiled_program(N, handle, nat) ==
    IF ~nat.get_compiled_program \/ N.handles[handle] # "compiled"
    THEN NativeError("NVPTXCOMPILE_ERROR_INVALID_PROGRAM_HANDLE error",
                     Traced(N, "get_compiled_program", handle, "RuntimeError", ""))
    ELSE NativeOk(nat.program, Traced(N, "get_compiled_program", handle, "none", nat.program))

Native_get_info_log(N, handle, nat) ==
    IF ~nat.get_info_log
    THEN NativeError("NVPTXCOMPILE_ERROR_INTERNAL error",
                     Traced(N, "get_info_log", handle, "RuntimeError", ""))
    ELSE NativeOk(nat.info_log, Traced(N, "get_info_log", handle, "none", nat.info_log))

Native_destroy(N, handle) ==
    [Traced(N, "destroy", handle, "none", "") EXCEPT !.handles[handle] = "destroyed"]

GoodPTX == ".version 7.4 .target sm_52 .address_size 64 .visible .entry _Z1kPf"

BadPTX == ".target sm_52"

PTXTexts == {GoodPTX, BadPTX}

\* What the library may answer to a call with this source text: malformed
\* text does not compile.
NativeAnswers(ptx) ==
    {nat \in [create : BOOLEAN, compile : BOOLEAN, get_error_log : BOOLEAN,
              get_compiled_program : BOOLEAN, get_info_log : BOOLEAN,
              error_log : {"ptxas fatal : Missing .version directive",
                           "ptxas fatal : Unknown option"},
              program : {"ELF sm_75", "ELF nv_debug"},
              info_log : {"", "ptxas info : 0 bytes gmem"}] :
        ptx = BadPTX => ~nat.compile}

(***************************************************************************)
(* api.compile_ptx.  An outcome carries the library state N it leaves.     *)
(***************************************************************************)
None == [present |-> FALSE, bytes |-> ""]

Bytes(b) == [present |-> TRUE, bytes |-> b]

NoResult == [compiled_program |-> "", info_log |-> ""]

Returned(val, N) == [exc |-> "none", msg |-> NoMsg, val |-> val, N |-> N]

Raised(exc, msg, N) == [exc |-> exc, msg |-> msg, val |-> NoResult, N |-> N]

\* the second try block, after get_compiled_program returned: get_info_log,
\* then finally destroy, then the result
\* Mutant: a failing get_info_log destroys the handle in a handler of its
\* own, and the finally clause destroys it again.
compile_ptx_info_log_destroy_twice(i, handle, compiled_program) ==
    IF i.exc # "none"
    THEN Raised(i.exc, i.msg, Native_destroy(Native_destroy(i.N, handle), handle))
    ELSE Returned([compiled_program |-> compiled_program, info_log |-> i.val],
                  Native_destroy(i.N, handle))

compile_ptx_info_log(i, handle, compiled_program) ==
    IF i.exc # "none" THEN Raised(i.exc, i.msg, Native_destroy(i.N, handle))
    ELSE Returned([compiled_program |-> compiled_program, info_log |-> i.val],
                  Native_destroy(i.N, handle))

\* the second try block: get_compiled_program, finally destroy
compile_ptx_program(p, handle, nat) ==
    IF p.exc # "none" THEN Raised(p.exc, p.msg, Native_destroy(p.N, handle))
    ELSE compile_ptx_info_log(Native_get_info_log(p.N, handle, nat), handle, p.val)

\* the except RuntimeError block: get_error_log, destroy, raise
compile_ptx_except(e, handle) ==
    IF e.exc # "none" THEN Raised(e.exc, e.msg, e.N)
    ELSE Raised("RuntimeError", [fmt |-> "%s", args |-> <<e.val>>],
                Native_destroy(e.N, handle))

\* Mutant: on a compile error the handle is destroyed first and the error
\* log read afterwards.
compile_ptx_compiled_destroy_first(c, handle, nat) ==
    IF c.exc = "RuntimeError"
    THEN Raised("RuntimeError",
                [fmt |-> "%s",
                 args |-> <<Native_get_error_log(Native_destroy(c.N, handle),
                                                 handle, nat).val>>],
                Native_get_error_log(Native_destroy(c.N, handle), handle, nat).N)
    ELSE compile_ptx_program(Native_get_compiled_program(c.N, handle, nat), handle, nat)

\* the first try block, after compile
compile_ptx_compiled(c, handle, nat) ==
    IF c.exc = "RuntimeError"
    THEN compile_ptx_except(Native_get_error_log(c.N, handle, nat), handle)
    ELSE IF c.exc # "none" THEN Raised(c.exc, c.msg, c.N)
    ELSE compile_ptx_program(Native_get_compiled_program(c.N, handle, nat), handle, nat)

\* Mutant: a failed compile tears the session down before its error is
\* handled.
compile_ptx_created_teardown(h, options, nat) ==
    IF h.exc # "none" THEN Raised(h.exc, h.msg, h.N)
    ELSE IF ~nat.compile
    THEN compile_ptx_compiled([Native_compile(h.N, h.val, options, nat)
                                  EXCEPT !.N = Native_destroy(@, h.val)],
                              h.val, nat)
    ELSE compile_ptx_compiled(Native_compile(h.N, h.val, options, nat), h.val, nat)

compile_ptx_created(h, options, nat) ==
    IF h.exc # "none" THEN Raised(h.exc, h.msg, h.N)
    ELSE compile_ptx_compiled(Native_compile(h.N, h.val, options, nat), h.val, nat)

compile_ptx(N, ptx, options, nat) ==
    compile_ptx_created(Native_create(N, ptx, nat), options, nat)

(***************************************************************************)
(* PTXStaticCompileCodeLibrary.get_cubin.  A code library has the          *)
(* per-architecture cubin cache and PTX fragments of its base class, and   *)
(* its register cap (0 for none).                                          *)
(***************************************************************************)
CCs == {<<7, 5>>, <<8, 0>>}

NoCC == <<>>

NoCodeLibrary ==
    [_cubin_cache |-> [cc \in CCs |-> None],
     ptxes |-> [cc \in CCs |-> <<GoodPTX>>],
     _max_registers |-> 0,
     device |-> <<7, 5>>]

\* The code libraries Numba hands over: a cache entry is filled when the
\* library was rebuilt from its serialized form, a library has one PTX
\* fragment per architecture or, when it links other libraries, several.
CodeLibraries ==
    [_cubin_cache : [CCs -> {None, Bytes("ELF cached")}],
     ptxes : [CCs -> {<<GoodPTX>>, <<GoodPTX, BadPTX>>}],
     _max_registers : {0, 32},
     device : CCs]

Truthy(cubin) == cubin.present /\ cubin.bytes # ""

CubinReturned(cubin, lib, compiles, N) ==
    [exc |-> "none", msg |-> NoMsg, val |-> cubin, lib |-> lib, compiles |-> compiles, N |-> N]

CubinRaised(exc, msg, lib, compiles, N) ==
    [exc |-> exc, msg |-> msg, val |-> None, lib |-> lib, compiles |-> compiles, N |-> N]

get_cubin_cc(lib, cc) == IF cc = NoCC THEN lib.device ELSE cc

get_cubin_arch(cc) == <<"sm_">> \o IntToStr(cc[1]) \o IntToStr(cc[2])

\* Mutant: the register cap is put before the architecture selector.
get_cubin_options_cap_first(lib, cc) ==
    (IF lib._max_registers # 0
     THEN <<(<<"--maxrregcount=">> \o IntToStr(lib._max_registers))>>
     ELSE <<>>)
    \o <<(<<"--gpu-name=">> \o get_cubin_arch(cc))>>

get_cubin_options(lib, cc) ==
    <<(<<"--gpu-name=">> \o get_cubin_arch(cc))>>
    \o (IF lib._max_registers # 0
        THEN <<(<<"--maxrregcount=">> \o IntToStr(lib._max_registers))>>
        ELSE <<>>)

\* after compile_ptx: the compiled program is returned; self is as it was
get_cubin_compiled(res, lib, ptx, options) ==
    IF res.exc # "none"
    THEN CubinRaised(res.exc, res.msg, lib, <<[ptx |-> ptx, options |-> options]>>, res.N)
    ELSE CubinReturned(Bytes(res.val.compiled_program), lib,
                       <<[ptx |-> ptx, options |-> options]>>, res.N)

\* Mutant: the number of PTX fragments is not checked; the first is compiled.
get_cubin_compile_unchecked(lib, cc, ptxes, N, nat) ==
    get_cubin_compiled(compile_ptx(N, ptxes[1], get_cubin_options(lib, cc), nat),
                       lib, ptxes[1], get_cubin_options(lib, cc))

get_cubin_compile(lib, cc, ptxes, N, nat) ==
    IF Len(ptxes) > 1
    THEN CubinRaised("RuntimeError",
                     [fmt |-> "Cannot link multiple PTX files with forward compatibility",
                      args |-> <<>>],
                     lib, <<>>, N)
    ELSE get_cubin_compiled(compile_ptx(N, ptxes[1], get_cubin_options(lib, cc), nat),
                            lib, ptxes[1], get_cubin_options(lib, cc))

\* Mutant: the cached binary is not used; every call compiles.
get_cubin_lookup_uncached(lib, cc, cubin, N, nat) ==
    get_cubin_compile(lib, cc, lib.ptxes[cc], N, nat)

get_cubin_lookup(lib, cc, cubin, N, nat) ==
    IF Truthy(cubin) THEN CubinReturned(cubin, lib, <<>>, N)
    ELSE get_cubin_compile(lib, cc, lib.ptxes[cc], N, nat)

get_cubin(lib, cc, N, nat) ==
    get_cubin_lookup(lib, get_cubin_cc(lib, cc), lib._cubin_cache[get_cubin_cc(lib, cc)],
                     N, nat)

(***************************************************************************)
(* Calls, as actions.  `last' is the call whose outcome the caller holds:  *)
(* what it returned or raised and what it did.  The caller goes on         *)
(* (Return) before the next call is made.                                  *)
(***************************************************************************)
NoCall ==
    [op |-> "none", exc |-> "none", msg |-> NoMsg, decision |-> FALSE,
     versions |-> NO_DRIVER, spawned |-> 0, warnings |-> <<>>, logs |-> <<>>,
     cp |-> NoCp, before |-> CUDACodeLibrary,
     ptx |-> "", options |-> <<>>, calls |-> <<>>, result |-> NoResult,
     cc |-> <<0, 0>>, cached |-> None, cubin |-> None, compiles |-> <<>>]

\* The world a call runs in: module state, the environment and what the
\* surroundings answer (the logging tree, the child process).
World(hasHandlers, cp) ==
    [environ |-> environ, imported |-> numba_install.present,
     _numba_version_ok |-> _numba_version_ok, _numba_error |-> _numba_error,
     _library_class |-> _library_class, hasHandlers |-> hasHandlers, cp |-> cp]

\* cp is the child's answer; it is recorded when the call spawned the child.
Record(op, o, w) ==
    [NoCall EXCEPT !.op = op, !.exc = o.exc, !.msg = o.msg,
                   !.spawned = o.fx.spawned, !.warnings = o.fx.warnings,
                   !.logs = o.fx.logs,
                   !.cp = IF o.fx.spawned > 0 THEN w.cp ELSE NoCp,
                   !.before = w._library_class]

\* patch_numba_codegen_if_needed went through the branch that assigns
\* _library_class: it returned and its last log record is that branch's.
TookPatchBranch(o) ==
    /\ o.exc = "none"
    /\ o.fx.logs # <<>>
    /\ o.fx.logs[Len(o.fx.logs)].fmt = "Patching Numba codegen for forward compatibility"

Idle == last.op = "none"

Call_patch_needed ==
    /\ Idle
    /\ \E hasHandlers \in BOOLEAN, cp \in ProbeOutcomes :
          LET w == World(hasHandlers, cp)
              o == patch_needed(Fx0(_logger), w)
          IN  /\ _logger' = o.fx.logger
              /\ last' = [Record("patch_needed", o, w) EXCEPT
                              !.decision = IF o.exc = "none" THEN o.val ELSE FALSE]
              /\ UNCHANGED <<environ, numba_install, _numba_version_ok, _numba_error,
                             _library_class, handles, codelib>>

Call_get_versions ==
    /\ Idle
    /\ \E hasHandlers \in BOOLEAN, cp \in ProbeOutcomes :
          LET w == World(hasHandlers, cp)
              o == get_versions(Fx0(_logger), w)
          IN  /\ _logger' = o.fx.logger
              /\ last' = [Record("get_versions", o, w) EXCEPT
                              !.versions = IF o.exc = "none" THEN o.val ELSE NO_DRIVER]
              /\ UNCHANGED <<environ, numba_install, _numba_version_ok, _numba_error,
                             _library_class, handles, codelib>>

Call_safe_get_versions ==
    /\ Idle
    /\ \E hasHandlers \in BOOLEAN, cp \in ProbeOutcomes :
          LET w == World(hasHandlers, cp)
              o == safe_get_versions(Fx0(_logger), w)
          IN  /\ _logger' = o.fx.logger
              /\ last' = [Record("safe_get_versions", o, w) EXCEPT
                              !.versions = IF o.exc = "none" THEN o.val ELSE NO_DRIVER]
              /\ UNCHANGED <<environ, numba_install, _numba_version_ok, _numba_error,
                             _library_class, handles, codelib>>

Call_patch_numba_codegen_if_needed ==
    /\ Idle
    /\ \E hasHandlers \in BOOLEAN, cp \in ProbeOutcomes :
          LET w == World(hasHandlers, cp)
              o == patch_numba_codegen_if_needed(Fx0(_logger), w)
          IN  /\ _logger' = o.fx.logger
              /\ _library_class' = o.val
              /\ last' = [Record("patch_numba_codegen_if_needed", o, w) EXCEPT
                              !.decision = TookPatchBranch(o)]
              /\ UNCHANGED <<environ, numba_install, _numba_version_ok, _numba_error,
                             handles, codelib>>

\* The caller has the outcome and goes on.
Return ==
    /\ ~Idle
    /\ last' = NoCall
    /\ UNCHANGED <<gateVars, handles, codelib>>

\* The process (or its user) changes one directive between calls.
SetEnv ==
    /\ Idle
    /\ \E name \in EnvNames :
          \E value \in EnvValues(name) :
              /\ value # environ[name]
              /\ environ' = [environ EXCEPT ![name] = value]
              /\ UNCHANGED <<numba_install, _numba_version_ok, _numba_error, _logger,
                             _library_class, handles, codelib, last>>

AllEnvirons ==
    {e \in [EnvNames -> UNION {EnvValues(name) : name \in EnvNames}] :
        \A name \in EnvNames : e[name] \in EnvValues(name)}

InitGate ==
    /\ environ \in AllEnvirons
    /\ numba_install \in NumbaInstalls
    /\ _numba_version_ok = ModuleImport(numba_install).ok
    /\ _numba_error = ModuleImport(numba_install).error
    /\ _logger = FALSE
    /\ _library_class = CUDACodeLibrary
    /\ handles = <<>>
    /\ codelib = NoCodeLibrary
    /\ last = NoCall

NextGate ==
    \/ Call_patch_needed
    \/ Call_get_versions
    \/ Call_safe_get_versions
    \/ Call_patch_numba_codegen_if_needed
    \/ Return
    \/ SetEnv

SpecGate == InitGate /\ [][NextGate]_vars

(***************************************************************************)
(* Calls of api.compile_ptx, with the gate's state left as imported.       *)
(***************************************************************************)
OptionLists ==
    {<<>>, << <<"--gpu-name=sm_75">> >>, << <<"--gpu-name=sm_75">>, <<"--device-debug">> >>}

Library == [handles |-> handles, calls |-> <<>>]

Call_compile_ptx ==
    /\ Idle
    /\ Len(handles) < MaxCalls
    /\ \E ptx \in PTXTexts, options \in OptionLists :
          \E nat \in NativeAnswers(ptx) :
              LET o == compile_ptx(Library, ptx, options, nat)
              IN  /\ handles' = o.N.handles
                  /\ last' = [NoCall EXCEPT !.op = "compile_ptx", !.exc = o.exc,
                                            !.msg = o.msg, !.ptx = ptx,
                                            !.options = options, !.calls = o.N.calls,
                                            !.result = o.val]
                  /\ UNCHANGED <<gateVars, codelib>>

InitSession ==
    /\ environ = [name \in EnvNames |-> Unset]
    /\ numba_install = [present |-> TRUE, ver |-> <<0, 56>>]
    /\ _numba_version_ok = ModuleImport(numba_install).ok
    /\ _numba_error = ModuleImport(numba_install).error
    /\ _logger = FALSE
    /\ _library_class = CUDACodeLibrary
    /\ handles = <<>>
    /\ codelib = NoCodeLibrary
    /\ last = NoCall

NextSession ==
    \/ Call_compile_ptx
    \/ Return

SpecSession == InitSession /\ [][NextSession]_vars

(***************************************************************************)
(* Calls of get_cubin on one code library, after the patch was applied.    *)
(***************************************************************************)
Call_get_cubin ==
    /\ Idle
    /\ Len(handles) < MaxCalls
    /\ _library_class = PTXStaticCompileCodeLibrary
    /\ \E cc \in CCs \cup {NoCC} :
          \E nat \in NativeAnswers(codelib.ptxes[get_cubin_cc(codelib, cc)][1]) :
              LET o == get_cubin(codelib, cc, Library, nat)
              IN  /\ handles' = o.N.handles
                  /\ codelib' = o.lib
                  /\ last' = [NoCall EXCEPT
                                  !.op = "get_cubin", !.exc = o.exc, !.msg = o.msg,
                                  !.cc = get_cubin_cc(codelib, cc),
                                  !.cached = codelib._cubin_cache[get_cubin_cc(codelib, cc)],
                                  !.cubin = o.val, !.compiles = o.compiles,
                                  !.calls = o.N.calls]
                  /\ UNCHANGED gateVars

InitCubin ==
    /\ environ = [name \in EnvNames |-> Unset]
    /\ numba_install = [present |-> TRUE, ver |-> <<0, 56>>]
    /\ _numba_version_ok = ModuleImport(numba_install).ok
    /\ _numba_error = ModuleImport(numba_install).error
    /\ _logger = TRUE
    /\ _library_class = PTXStaticCompileCodeLibrary
    /\ handles = <<>>
    /\ codelib \in CodeLibraries
    /\ last = NoCall

NextCubin ==
    \/ Call_get_cubin
    \/ Return

SpecCubin == InitCubin /\ [][NextCubin]_vars

(***************************************************************************)
(* Calls that read the two integer directives, over every short text.      *)
(***************************************************************************)
FlagChars == {"0", "1", "-", " ", "x"}

FlagTexts == UNION {[1..n -> FlagChars] : n \in 0..MaxFlagLen}

TextFlagValues == {Unset} \cup {Set(text) : text \in FlagTexts}

Call_patch_forced_by_user ==
    /\ Idle
    /\ \E hasHandlers \in BOOLEAN :
          LET w == World(hasHandlers, NoCp)
              o == patch_forced_by_user(Fx0(_logger), w)
          IN  /\ _logger' = o.fx.logger
              /\ last' = [Record("patch_forced_by_user", o, w) EXCEPT
                              !.decision = IF o.exc = "none" THEN o.val ELSE FALSE]
              /\ UNCHANGED <<environ, numba_install, _numba_version_ok, _numba_error,
                             _library_class, handles, codelib>>

Call_check_disabled_in_env ==
    /\ Idle
    /\ \E hasHandlers \in BOOLEAN :
          LET w == World(hasHandlers, NoCp)
              o == check_disabled_in_env(Fx0(_logger), w)
          IN  /\ _logger' = o.fx.logger
              /\ last' = [Record("check_disabled_in_env", o, w) EXCEPT
                              !.decision = IF o.exc = "none" THEN o.val ELSE FALSE]
              /\ UNCHANGED <<environ, numba_install, _numba_version_ok, _numba_error,
                             _library_class, handles, codelib>>

InitFlags ==
    /\ \E apply \in TextFlagValues \cup FlagValues, check \in TextFlagValues \cup FlagValues :
          /\ apply \in FlagValues \/ check \in FlagValues
          /\ environ = [name \in EnvNames |->
                           IF name = APPLY THEN apply
                           ELSE IF name = CHECK THEN check ELSE Unset]
    /\ numba_install = [present |-> TRUE, ver |-> <<0, 56>>]
    /\ _numba_version_ok = ModuleImport(numba_install).ok
    /\ _numba_error = ModuleImport(numba_install).error
    /\ _logger = FALSE
    /\ _library_class = CUDACodeLibrary
    /\ handles = <<>>
    /\ codelib = NoCodeLibrary
    /\ last = NoCall

NextFlags ==
    \/ Call_patch_forced_by_user
    \/ Call_check_disabled_in_env
    \/ Call_patch_needed
    \/ Return

SpecFlags == InitFlags /\ [][NextFlags]_vars

Init ==
    /\ environ \in AllEnvirons
    /\ numba_install \in NumbaInstalls
    /\ _numba_version_ok = ModuleImport(numba_install).ok
    /\ _numba_error = ModuleImport(numba_install).error
    /\ _logger = FALSE
    /\ _library_class = CUDACodeLibrary
    /\ handles = <<>>
    /\ codelib \in CodeLibraries
    /\ last = NoCall

Next ==
    \/ NextGate
    \/ Call_patch_forced_by_user
    \/ Call_check_disabled_in_env
    \/ Call_compile_ptx
    \/ Call_get_cubin

Spec == Init /\ [][Next]_vars

(***************************************************************************)
(* Properties of the compatibility gate (checked under SpecGate).          *)
(*                                                                         *)
(* The directives are named here by the values the environment can hold in *)
(* this model, not through the parsing operators above.                    *)
(***************************************************************************)
GateOps == {"patch_needed", "patch_numba_codegen_if_needed"}

\* APPLY holds an integer other than 0
ForceInEffect == environ[APPLY] = Set(<<"1">>)

\* CHECK holds 0 or something that is no integer
SkipInEffect == environ[CHECK] \in {Set(<<"0">>), Set(<<"x">>)}

KnownSupplied ==
    /\ environ[KNOWN_DRIVER] \in {Set(<<"1", "1", ".", "2">>), Set(<<"1", "1", ".", "8">>)}
    /\ environ[KNOWN_RUNTIME] = Set(<<"1", "1", ".", "5">>)

\* The supplied driver version, as the pair it denotes
SuppliedDriver ==
    IF environ[KNOWN_DRIVER] = Set(<<"1", "1", ".", "2">>) THEN <<11, 2>> ELSE <<11, 8>>

SuppliedRuntime == <<11, 5>>

\* (major, minor) pairs: major first, then minor, strictly
LexLess(a, b) == a[1] < b[1] \/ (a[1] = b[1] /\ a[2] < b[2])

\* The selector is the replacement after a patching call and untouched after
\* any other call.
SelectorFollowsDecision ==
    last.op = "patch_numba_codegen_if_needed" =>
        _library_class = IF last.decision THEN PTXStaticCompileCodeLibrary ELSE last.before

\* C3: with a usable host framework, no force override, probing not
\* disabled and a probe that succeeds reporting driver (dM, dm) and runtime
\* (rM, rm), the gate patches iff (dM, dm) < (rM, rm) lexicographically;
\* equal versions do not patch; (11, 2) vs (11, 5) patches and (11, 8) vs
\* (11, 5) does not.
C3_PatchIffDriverOlder ==
    (/\ last.op \in GateOps
     /\ _numba_version_ok
     /\ ~ForceInEffect
     /\ ~SkipInEffect)
    => /\ last.spawned = 1
       /\ \A dv \in DriverInts, rt \in RuntimeVersions :
            last.cp = [returncode |-> 0, stdout |-> CMD(dv, rt), stderr |-> <<>>]
            => /\ last.exc = "none"
               /\ last.decision = LexLess(<<dv \div 1000, (dv % 1000) \div 10>>, rt)
               /\ (dv = 1000 * rt[1] + 10 * rt[2] => ~last.decision)
       /\ last.cp.stdout = <<"1", "1", " ", "2", " ", "1", "1", " ", "5", "\n">>
            => last.decision
       /\ last.cp.stdout = <<"1", "1", " ", "8", " ", "1", "1", " ", "5", "\n">>
            => ~last.decision
       /\ SelectorFollowsDecision

C3_Witness ==
    /\ last.op = "patch_needed"
    /\ _numba_version_ok
    /\ ~ForceInEffect /\ ~SkipInEffect
    /\ last.cp = [returncode |-> 0, stdout |-> CMD(11080, <<12, 5>>), stderr |-> <<>>]
    /\ last.decision

\* C4: with a usable host framework and the force override in effect, the
\* gate patches whatever the skip-probing directive and the known versions
\* are, and spawns no probe during the decision.
C4_ForcePatchesWithoutProbe ==
    (/\ last.op \in GateOps
     /\ _numba_version_ok
     /\ ForceInEffect)
    => /\ last.exc = "none"
       /\ last.decision
       /\ last.spawned = 0
       /\ last.op = "patch_numba_codegen_if_needed"
            => _library_class = PTXStaticCompileCodeLibrary

C4_Witness ==
    /\ last.op = "patch_numba_codegen_if_needed"
    /\ _numba_version_ok
    /\ ForceInEffect
    /\ SkipInEffect
    /\ last.before = CUDACodeLibrary
    /\ _library_class = PTXStaticCompileCodeLibrary
    /\ last.spawned = 0

\* The reason module import records for an unusable Numba
ExpectedReason ==
    IF ~numba_install.present THEN "failed to import Numba"
    ELSE IF numba_install.ver[2] < 54 THEN "is insufficient"
    ELSE "should not be patched"

\* C5: with an unusable host framework patch_numba_codegen_if_needed raises
\* 'Cannot patch Numba: ' + the recorded reason, whatever the directives
\* (force included), spawns no probe and leaves the selector alone;
\* patch_needed returns False without raising.
C5_UnusableHostFailsFast ==
    ~_numba_version_ok
    => /\ last.op = "patch_numba_codegen_if_needed"
            => /\ last.exc = "RuntimeError"
               /\ last.msg.fmt = "Cannot patch Numba: %s"
               /\ last.msg.args = <<_numba_error>>
               /\ _numba_error.kind = ExpectedReason
               /\ last.spawned = 0
               /\ ~last.decision
               /\ _library_class = last.before
       /\ last.op = "patch_needed"
            => /\ last.exc = "none"
               /\ ~last.decision
               /\ last.spawned = 0

C5_Witness ==
    /\ last.op = "patch_numba_codegen_if_needed"
    /\ numba_install.present /\ numba_install.ver = <<0, 57>>
    /\ ForceInEffect
    /\ last.exc = "RuntimeError"
    /\ _library_class = CUDACodeLibrary

\* The error record of the last call carries the child's stdout and stderr
ErrorDetailHasChildText ==
    \E i \in 1..Len(last.logs) :
        /\ last.logs[i].level = "error"
        /\ Len(last.logs[i].args) = 2
        /\ last.logs[i].args[1] = last.cp.stdout
        /\ last.logs[i].args[2] = last.cp.stderr

\* C6: a probe that exits non-zero is non-fatal: get_versions and
\* patch_needed do not raise, the decision is 'do not patch' (the selector
\* stays as it was), and the child's stdout and stderr text are in the
\* reported error detail.
C6_ProbeFailureIsNonFatal ==
    (last.spawned > 0 /\ last.cp.returncode # 0)
    => /\ last.exc = "none"
       /\ ~last.decision
       /\ last.op \in {"get_versions", "safe_get_versions"} => last.versions = NO_DRIVER
       /\ SelectorFollowsDecision
       /\ last.op = "patch_numba_codegen_if_needed" => _library_class = last.before
       /\ ErrorDetailHasChildText

C6_Witness ==
    /\ last.op = "patch_needed"
    /\ last.spawned = 1
    /\ last.cp = [returncode |-> 1, stdout |-> <<"o">>, stderr |-> <<"e">>]
    /\ ~last.decision
    /\ last.exc = "none"

\* C8 as claimed: with the skip-probing directive in effect (and no force
\* override) and known versions supplied, the gate does not probe and
\* patches iff the supplied driver version < the supplied runtime version.
C8_GateComparesKnownVersions ==
    (/\ last.op \in GateOps
     /\ _numba_version_ok
     /\ ~ForceInEffect
     /\ SkipInEffect
     /\ KnownSupplied)
    => /\ last.spawned = 0
       /\ last.decision = LexLess(SuppliedDriver, SuppliedRuntime)

\* C8, amended: with the skip-probing directive in effect and no force
\* override the gate does not probe and does not patch, whatever known
\* versions are supplied; the supplied versions are read by safe_get_versions
\* only, which then returns them as (driver, runtime) without probing, so
\* that driver < runtime on its result compares the supplied versions.
C8_KnownVersionsOnlyInSafeGetVersions ==
    (SkipInEffect /\ KnownSupplied)
    => /\ (last.op \in GateOps /\ _numba_version_ok /\ ~ForceInEffect)
            => /\ last.exc = "none"
               /\ last.spawned = 0
               /\ ~last.decision
               /\ SelectorFollowsDecision
       /\ (last.op = "safe_get_versions" /\ last.exc = "none")
            => /\ last.spawned = 0
               /\ last.warnings = <<>>
               /\ last.versions = <<Tup(SuppliedDriver), Tup(SuppliedRuntime)>>
               /\ PyLess(last.versions[1], last.versions[2])
                    = LexLess(SuppliedDriver, SuppliedRuntime)

C8_Witness ==
    /\ last.op = "patch_numba_codegen_if_needed"
    /\ _numba_version_ok
    /\ environ[APPLY] = Unset
    /\ environ[CHECK] = Set(<<"0">>)
    /\ environ[KNOWN_DRIVER] = Set(<<"1", "1", ".", "2">>)
    /\ environ[KNOWN_RUNTIME] = Set(<<"1", "1", ".", "5">>)
    /\ ~last.decision
    /\ _library_class = CUDACodeLibrary

\* C9: once the selector is the replacement strategy it stays the
\* replacement, whatever is called next and however the directives change.
C9_PatchIsOneDirectional ==
    [][_library_class = PTXStaticCompileCodeLibrary
         => _library_class' = PTXStaticCompileCodeLibrary]_vars

C9_Witness ==
    /\ last.op = "patch_numba_codegen_if_needed"
    /\ last.before = PTXStaticCompileCodeLibrary
    /\ ~last.decision
    /\ last.exc = "none"
    /\ _library_class = PTXStaticCompileCodeLibrary

NoKnownVersions ==
    \/ environ[KNOWN_DRIVER] \in {Unset, Set(<<"1", "1", ".", "x">>)}
    \/ environ[KNOWN_RUNTIME] = Unset

\* C10 as claimed: probing skipped, no force override, no known versions:
\* the gate does not patch, emits a warning and spawns no subprocess.
C10_GateWarnsWhenSkipping ==
    (/\ last.op \in GateOps
     /\ _numba_version_ok
     /\ ~ForceInEffect
     /\ SkipInEffect
     /\ NoKnownVersions)
    => /\ ~last.decision
       /\ last.warnings # <<>>
       /\ last.spawned = 0

\* C10, amended: probing skipped, no force override, no known versions: the
\* gate does not patch and spawns no subprocess, and it emits no warning;
\* the warning comes from safe_get_versions only, which in that situation
\* returns NO_DRIVER without spawning a subprocess.
C10_SkipDeclinesSilently ==
    /\ (/\ last.op \in GateOps
        /\ _numba_version_ok
        /\ ~ForceInEffect
        /\ SkipInEffect
        /\ NoKnownVersions)
       => /\ last.exc = "none"
          /\ ~last.decision
          /\ last.spawned = 0
          /\ last.warnings = <<>>
          /\ SelectorFollowsDecision
    /\ (/\ last.op = "safe_get_versions"
        /\ last.exc = "none"
        /\ SkipInEffect
        /\ NoKnownVersions)
       => /\ last.versions = NO_DRIVER
          /\ last.warnings = <<NoWayWarning>>
          /\ last.spawned = 0
    /\ last.warnings # <<>> => last.op = "safe_get_versions"

C10_Witness ==
    /\ last.op = "patch_needed"
    /\ _numba_version_ok
    /\ environ[APPLY] = Set(<<"0">>)
    /\ environ[CHECK] = Set(<<"x">>)
    /\ environ[KNOWN_DRIVER] = Unset
    /\ ~last.decision
    /\ last.warnings = <<>>
    /\ last.spawned = 0


(***************************************************************************)
(* Claims about compile_ptx, checked under SpecSession.                    *)
(***************************************************************************)
SessionCreated ==
    /\ last.op = "compile_ptx"
    /\ last.calls # <<>>
    /\ last.calls[1].fn = "create"
    /\ last.calls[1].exc = "none"

SessionHandle == last.calls[1].handle

CallsOf(fn) ==
    {i \in DOMAIN last.calls :
        last.calls[i].fn = fn /\ last.calls[i].handle = SessionHandle}

NativeCalls(fn) == {i \in DOMAIN last.calls : last.calls[i].fn = fn}

NativeCompileEnded ==
    \E i \in CallsOf("compile") : last.calls[i].exc \in {"none", "RuntimeError"}

\* C1: in every compile_ptx call in which create succeeds, the handle is
\* destroyed exactly once before the call ends, both when the native compile
\* succeeds and when it fails with the native compile error.
C1_HandleDestroyedExactlyOnce ==
    (SessionCreated /\ NativeCompileEnded) => Cardinality(CallsOf("destroy")) = 1

\* the call of C1 that ends with no destroy: compile failed, then reading
\* the error log failed
C1_Witness ==
    /\ SessionCreated
    /\ \E i \in CallsOf("compile") : last.calls[i].exc = "RuntimeError"
    /\ \E i \in CallsOf("get_error_log") : last.calls[i].exc = "RuntimeError"
    /\ CallsOf("destroy") = {}

\* C2: the handle is released on every exit path of the call in which it was
\* created: when the call ends, by return or by any error, the handle no
\* longer exists in the native library.
C2_HandleReleasedOnEveryExit ==
    SessionCreated => handles[SessionHandle] = "destroyed"

\* a call of C2 that ended with an error other than the compile diagnostic
\* and left its handle alive
C2_Witness ==
    /\ SessionCreated
    /\ last.exc = "RuntimeError"
    /\ last.msg.args = <<"NVPTXCOMPILE_ERROR_INTERNAL error">>
    /\ handles[SessionHandle] = "failed"

(***************************************************************************)
(* Claims about get_cubin, checked under SpecCubin.                        *)
(***************************************************************************)
CubinCompiled ==
    /\ last.op = "get_cubin"
    /\ last.exc = "none"
    /\ ~Truthy(last.cached)
    /\ Len(last.compiles) = 1

\* C7: after a get_cubin call that misses the cache and compiles
\* successfully, the cache holds the returned binary for that architecture.
C7_CompiledCubinIsCached ==
    CubinCompiled => codelib._cubin_cache[last.cc] = last.cubin

\* the call of C7: a miss, one successful compilation, a binary returned,
\* and the cache entry of that architecture still empty
C7_Witness ==
    /\ CubinCompiled
    /\ Truthy(last.cubin)
    /\ codelib._cubin_cache[last.cc] = None

MultiplePTX == Len(codelib.ptxes[last.cc]) > 1

UnsupportedLink ==
    /\ last.exc = "RuntimeError"
    /\ last.msg = [fmt |-> "Cannot link multiple PTX files with forward compatibility",
                   args |-> <<>>]
    /\ last.compiles = <<>>
    /\ last.calls = <<>>

\* C11 as claimed: whenever more than one PTX fragment exists for the
\* requested architecture, get_cubin fails with the unsupported-link error
\* and compile_ptx is not invoked.
C11_MultiplePTXAlwaysRejected ==
    (last.op = "get_cubin" /\ MultiplePTX) => UnsupportedLink

\* C11, amended: when the cache holds no non-empty binary for the requested
\* architecture and more than one PTX fragment exists for it, get_cubin
\* fails with the unsupported-link error before any compiler session is
\* created; when the cache holds a binary, that binary is returned and the
\* fragments are not counted.
C11_MultiplePTXRejectedOnMiss ==
    (last.op = "get_cubin" /\ MultiplePTX)
    => IF Truthy(last.cached)
       THEN last.exc = "none" /\ last.cubin = last.cached /\ last.compiles = <<>>
       ELSE UnsupportedLink

\* a miss with two fragments, rejected with no native call made
C11_Witness ==
    /\ last.op = "get_cubin"
    /\ MultiplePTX
    /\ ~Truthy(last.cached)
    /\ UnsupportedLink

CubinStep == last.op = "none" /\ last'.op = "get_cubin"

\* C17: when the cache already holds a non-empty binary for the requested
\* architecture, get_cubin returns exactly that binary, whatever the number
\* of PTX fragments, without invoking the compiler (no native call is made
\* and no handle created), and leaves the cache and the code library
\* unchanged.
C17_CacheHitReturnsCached ==
    [][(CubinStep /\ Truthy(codelib._cubin_cache[last'.cc]))
       => /\ last'.exc = "none"
          /\ last'.cubin = codelib._cubin_cache[last'.cc]
          /\ last'.compiles = <<>>
          /\ last'.calls = <<>>
          /\ handles' = handles
          /\ codelib' = codelib]_vars

\* a hit on a code library that has two fragments for the architecture
C17_Witness ==
    /\ last.op = "get_cubin"
    /\ Truthy(last.cached)
    /\ MultiplePTX
    /\ last.exc = "none"
    /\ last.cubin = Bytes("ELF cached")
    /\ last.compiles = <<>>

ArchOption ==
    <<"--gpu-name=", "sm_">> \o IntToStr(last.cc[1]) \o IntToStr(last.cc[2])

CapOption == <<"--maxrregcount=">> \o IntToStr(codelib._max_registers)

\* C18: on a cache miss with exactly one PTX fragment, get_cubin for
\* compute capability (a, b) invokes the compiler once, with that fragment
\* and with the options '--gpu-name=sm_<a><b>' first, followed by
\* '--maxrregcount=<n>' if and only if a register cap n is configured; no
\* other option is passed.
C18_CompilerOptions ==
    (last.op = "get_cubin" /\ ~Truthy(last.cached) /\ Len(codelib.ptxes[last.cc]) = 1)
    => /\ Len(last.compiles) = 1
       /\ last.compiles[1].ptx = codelib.ptxes[last.cc][1]
       /\ NativeCalls("create") = {1}
       /\ last.compiles[1].options =
             IF codelib._max_registers # 0 THEN <<ArchOption, CapOption>>
             ELSE <<ArchOption>>

\* a compilation for (7, 5) with a register cap of 32
C18_Witness ==
    /\ last.op = "get_cubin"
    /\ ~Truthy(last.cached)
    /\ last.cc = <<7, 5>>
    /\ codelib._max_registers = 32
    /\ Len(last.compiles) = 1
    /\ last.compiles[1].options =
          << <<"--gpu-name=", "sm_", "7", "5">>, <<"--maxrregcount=", "3", "2">> >>

(***************************************************************************)
(* Further claims about compile_ptx, checked under SpecSession.            *)
(***************************************************************************)
NativeCompileFailed ==
    /\ SessionCreated
    /\ \E i \in CallsOf("compile") : last.calls[i].exc = "RuntimeError"

\* C12: when the native compile fails, compile_ptx reads the error log from
\* the handle strictly before the handle is destroyed (the handle is still
\* in its failed state at the read), and when the read returns a text the
\* error raised to the caller is a RuntimeError carrying exactly that text,
\* not the status text of the failed compile.
C12_ErrorLogReadBeforeDestroy ==
    NativeCompileFailed
    => /\ Cardinality(CallsOf("get_error_log")) = 1
       /\ \A i \in CallsOf("get_error_log") :
             /\ last.calls[i].state = "failed"
             /\ \A j \in CallsOf("destroy") : i < j
             /\ \A k \in CallsOf("compile") : k < i
             /\ last.calls[i].exc = "none"
                  => /\ last.exc = "RuntimeError"
                     /\ last.msg = [fmt |-> "%s", args |-> <<last.calls[i].val>>]
                     /\ CallsOf("destroy") # {}

\* a failed compile whose error log was read, the handle then destroyed and
\* the log text raised
C12_Witness ==
    /\ NativeCompileFailed
    /\ \E i \in CallsOf("get_error_log"), j \in CallsOf("destroy") :
          /\ i < j
          /\ last.calls[i].val = "ptxas fatal : Missing .version directive"
    /\ last.msg.args = <<"ptxas fatal : Missing .version directive">>

\* C14: when compile fails, the session is alive at the moment the compile
\* error reaches its caller: the failed compile is the last native call
\* before the except block runs, nothing has destroyed the handle by then,
\* and the caller's next native call reads the diagnostics from the live
\* handle.
C14_SessionAliveOnCompileError ==
    \A i \in CallsOf("compile") :
        (SessionCreated /\ last.calls[i].exc = "RuntimeError")
        => /\ \A j \in CallsOf("destroy") : i < j
           /\ i + 1 \in CallsOf("get_error_log")
           /\ last.calls[i + 1].state # "destroyed"
           /\ last.calls[i + 1].state = "failed"

\* a failed compile followed by a read of the error log that returned text
C14_Witness ==
    /\ SessionCreated
    /\ \E i \in CallsOf("compile") :
          /\ last.calls[i].exc = "RuntimeError"
          /\ i + 1 \in CallsOf("get_error_log")
          /\ last.calls[i + 1].exc = "none"
          /\ last.calls[i + 1].state = "failed"
          /\ last.calls[i + 1].val = "ptxas fatal : Unknown option"

NativeReads == {"get_compiled_program", "get_info_log"}

\* C15: within one compile_ptx call the native operations follow the
\* session protocol: create is the first call; compile is invoked exactly
\* once when create succeeded and not at all otherwise; the compiled
\* program and the info log are read only after that compile succeeded,
\* the error log only after it failed; every call is on the handle create
\* returned; and no native operation, a second destroy included, is invoked
\* on the handle after it has been destroyed.
C15_SessionProtocol ==
    last.op = "compile_ptx"
    => /\ NativeCalls("create") = {1}
       /\ IF last.calls[1].exc = "none"
          THEN Cardinality(NativeCalls("compile")) = 1
          ELSE Len(last.calls) = 1
       /\ \A i \in DOMAIN last.calls :
             /\ i > 1 => last.calls[i].handle = last.calls[1].handle
             /\ last.calls[i].fn = "compile" => i = 2 /\ last.calls[i].state = "created"
             /\ last.calls[i].fn \in NativeReads
                  => /\ last.calls[2].fn = "compile" /\ last.calls[2].exc = "none"
                     /\ last.calls[i].state = "compiled"
             /\ last.calls[i].fn = "get_error_log"
                  => /\ last.calls[2].fn = "compile" /\ last.calls[2].exc = "RuntimeError"
                     /\ last.calls[i].state = "failed"
             /\ last.calls[i].fn = "destroy" => i = Len(last.calls)
             /\ i > 1 => last.calls[i].state # "destroyed"

\* a whole session: create, compile, both reads, destroy
C15_Witness ==
    /\ last.op = "compile_ptx"
    /\ last.exc = "none"
    /\ Len(last.calls) = 5
    /\ last.calls[2].fn = "compile"
    /\ last.calls[3].fn = "get_compiled_program"
    /\ last.calls[4].fn = "get_info_log"
    /\ last.calls[5].fn = "destroy"
    /\ last.result.compiled_program = last.calls[3].val

(***************************************************************************)
(* Further claims about the gate, checked under SpecGate.                  *)
(***************************************************************************)
\* the child's output is not four whitespace-separated integers
Malformed(stdout) ==
    \/ ~IntList(SplitWs(Strip(stdout))).ok
    \/ Len(IntList(SplitWs(Strip(stdout))).val) # 4

MalformedProbe ==
    /\ last.op \in GateOps \cup {"get_versions"}
    /\ last.spawned > 0
    /\ last.cp.returncode = 0
    /\ Malformed(last.cp.stdout)

\* C13: a probe whose child exits with status zero but returns malformed
\* data is a non-fatal probe failure: the call does not raise to its caller,
\* the decision is 'do not patch' and the selector is left as it was.
C13_MalformedProbeIsNonFatal ==
    MalformedProbe
    => /\ last.exc = "none"
       /\ ~last.decision
       /\ _library_class = last.before

\* the explicit patch request raising on a child that printed three numbers
C13_Witness ==
    /\ MalformedProbe
    /\ last.op = "patch_numba_codegen_if_needed"
    /\ last.cp.stdout = <<"1", "1", " ", "2", " ", "1", "1", "\n">>
    /\ last.exc = "TypeError"

PatchRequestStep ==
    last.op = "none" /\ last'.op = "patch_numba_codegen_if_needed"

\* C16: the selector is written only by patch_numba_codegen_if_needed and
\* only when the decision is 'patch': a step of that call which decides
\* 'patch' leaves the selector at PTXStaticCompileCodeLibrary; a step of it
\* which decides 'do not patch' or raises, and every other step
\* (patch_needed, get_versions, safe_get_versions, a directive change),
\* leaves the selector as it was.
C16_SelectorWrittenOnlyByPatch ==
    [][IF PatchRequestStep /\ last'.exc = "none" /\ last'.decision
       THEN _library_class' = PTXStaticCompileCodeLibrary
       ELSE _library_class' = _library_class]_vars

\* the patch request wrote the selector after a probe that found the driver
\* older than the runtime
C16_Witness ==
    /\ last.op = "patch_numba_codegen_if_needed"
    /\ last.decision
    /\ last.spawned = 1
    /\ last.cp = [returncode |-> 0, stdout |-> CMD(11020, <<11, 5>>), stderr |-> <<>>]
    /\ last.before = CUDACodeLibrary
    /\ _library_class = PTXStaticCompileCodeLibrary

(***************************************************************************)
(* The integer directives, checked under SpecFlags.                        *)
(***************************************************************************)
Blank(t, a, b) == \A k \in a..b : t[k] \in {" ", "\n"}

Decimal(t, a, b) ==
    /\ a <= b
    /\ \A k \in a..b : t[k] \in {"0", "1", "2", "3", "4", "5", "6", "7", "8", "9"}

\* the text reads as an integer: blanks, an optional sign, digits, blanks
ReadsAsInteger(t) ==
    \E i \in 1..Len(t), j \in 1..Len(t) :
        /\ Blank(t, 1, i - 1)
        /\ Blank(t, j + 1, Len(t))
        /\ \/ Decimal(t, i, j)
           \/ t[i] \in {"-", "+"} /\ Decimal(t, i + 1, j)

ReadsAsNonZero(t) ==
    /\ ReadsAsInteger(t)
    /\ \E k \in 1..Len(t) : t[k] \in {"1", "2", "3", "4", "5", "6", "7", "8", "9"}

Forced == environ[APPLY].set /\ ReadsAsNonZero(environ[APPLY].val)

ProbingDisabled == environ[CHECK].set /\ ~ReadsAsNonZero(environ[CHECK].val)

\* C19: both directives are read as integers and a text that is no integer
\* counts as 0.  The apply directive forces the patch only when it reads as
\* a non-zero integer; unset, zero or unparsable it does not, and the
\* decision falls through to the next step.  The check directive disables
\* probing when it is zero or unparsable; unset or non-zero, probing stays
\* enabled.
C19_DirectivesAreIntegers ==
    /\ last.op = "patch_forced_by_user"
         => last.exc = "none" /\ last.decision = Forced
    /\ last.op = "check_disabled_in_env"
         => last.exc = "none" /\ last.decision = ProbingDisabled
    /\ (last.op = "patch_needed" /\ _numba_version_ok)
         => IF Forced THEN last.exc = "none" /\ last.decision /\ last.spawned = 0
            ELSE IF ProbingDisabled
            THEN last.exc = "none" /\ ~last.decision /\ last.spawned = 0
            ELSE last.spawned = 1

\* a negative number forces the patch although probing is disabled by an
\* unparsable text
C19_Witness ==
    /\ last.op = "patch_needed"
    /\ environ[APPLY] = Set(<<"-", "1">>)
    /\ environ[CHECK] = Set(<<"x">>)
    /\ last.decision
    /\ last.spawned = 0

====
